---- MODULE Spec2Model ----
(***************************************************************************)
(* Model of html-to-pdf-service/app.py: the handler convert_html_to_pdf    *)
(* of POST /convert, run by several concurrent workers that share only the *)
(* temporary directory.  One action per step of the handler that touches   *)
(* the request, the file system or the renderer process.                   *)
(***************************************************************************)
EXTENDS Integers, Sequences, FiniteSets, TLC

\* ------------------------------------------------------------------ bounds
NumRequests == 2        \* requests the clients send (each runs the handler once)
NumNames == 2           \* candidate random names mkstemp may draw, per suffix

Requests == 1..NumRequests
Names == 1..NumNames

\* ------------------------------------------------------- values and paths
None == "None"          \* Python's None for the two path locals

\* tempfile.mkstemp(suffix=...): gettempdir()/tmp<random name><suffix>
TempName(n, suffix) == "/tmp/tmp" \o ToString(n) \o suffix
HtmlPaths == {TempName(n, ".html") : n \in Names}
PdfPaths == {TempName(n, ".pdf") : n \in Names}

\* JSON values a body can parse to.  Scalars and lists carry their text in
\* s / l; an object carries a function from its keys to scalar values.
JNull == [t |-> "null", s |-> "", l |-> <<>>]
JStr(s) == [t |-> "str", s |-> s, l |-> <<>>]
JNum(s) == [t |-> "num", s |-> s, l |-> <<>>]
JList(l) == [t |-> "list", s |-> "", l |-> l]
JObj(o) == [t |-> "obj", o |-> o]

\* The document request r sends when it sends a well-formed one: every
\* request carries its own marker.
Doc(r) == "<p>" \o ToString(r) \o "</p>"

HtmlValues(r) == {JNull, JStr(""), JStr(" "), JStr(Doc(r)), JNum("0"), JNum("5"),
                  JList(<<>>), JList(<<"x">>)}

Bodies(r) ==
    {[raw |-> "absent", data |-> JNull], [raw |-> "malformed", data |-> JNull]}
    \cup {[raw |-> "json", data |-> d] :
            d \in {JNull, JStr(""), JStr("abc"), JStr("<html>"), JNum("0"), JNum("5"),
                   JList(<<>>), JList(<<"x">>), JList(<<"html">>),
                   JObj([k \in {} |-> JNull]), JObj([other |-> JStr("x")])}
                  \cup {JObj([html |-> v]) : v \in HtmlValues(r)}
                  \cup {JObj([html |-> JStr(Doc(r)), other |-> JStr("x")])}}

\* The bodies of the concurrent runs: a document of the request's own, and
\* an object without the key.
CoreBodies(r) ==
    {[raw |-> "json", data |-> JObj([html |-> JStr(Doc(r))])],
     [raw |-> "json", data |-> JObj([k \in {} |-> JNull])]}

\* ------------------------------------------------------ Python semantics
\* s1 in s2 for two strings
IsSubstr(sub, s) ==
    \E i \in 1..Len(s) :
        /\ i + Len(sub) - 1 <= Len(s)
        /\ SubSeq(s, i, i + Len(sub) - 1) = sub

\* bool(v)
Truthy(v) ==
    CASE v.t = "null" -> FALSE
      [] v.t = "str" -> Len(v.s) > 0
      [] v.t = "num" -> v.s # "0"
      [] v.t = "list" -> Len(v.l) > 0
      [] v.t = "obj" -> DOMAIN v.o # {}

\* 'html' in v: "yes", "no", or the TypeError it raises
ContainsHtml(v) ==
    CASE v.t = "str" -> IF IsSubstr("html", v.s) THEN "yes" ELSE "no"
      [] v.t = "list" -> IF \E i \in 1..Len(v.l) : v.l[i] = "html" THEN "yes" ELSE "no"
      [] v.t = "obj" -> IF "html" \in DOMAIN v.o THEN "yes" ELSE "no"
      [] OTHER -> "TypeError"

\* ------------------------------------------------------------- responses
NoJson == [k \in {} |-> ""]
Json(status, j) == [status |-> status, json |-> j, body |-> ""]
InternalError(e) ==
    Json(500, [error |-> "An internal server error occurred: " \o e])
MissingField ==
    Json(400, [error |-> "Invalid request, JSON body with 'html' key is required"])
EmptyField ==
    Json(400, [error |-> "'html' key is present but value is empty or null"])

\* ------------------------------------------------------------------ state
VARIABLES
    pc,                     \* where each request's handler stands
    request,                \* the body each request sent
    html_content,           \* local html_content
    temp_html_file_path,    \* local temp_html_file_path
    temp_pdf_file_path,     \* local temp_pdf_file_path
    result,                 \* local result (subprocess.CompletedProcess), <<>> while unset
    response,               \* the value the handler returns, <<>> while undecided
    printed,                \* the lines of 84 and 146-166 each request has printed
    fds,                    \* the paths each worker holds an open descriptor on
    fs                      \* the temporary directory: path -> [creator, data]

vars == <<pc, request, html_content, temp_html_file_path, temp_pdf_file_path,
          result, response, printed, fds, fs>>

Init ==
    /\ pc = [r \in Requests |-> "idle"]
    /\ request = [r \in Requests |-> [raw |-> "absent", data |-> JNull]]
    /\ html_content = [r \in Requests |-> JNull]
    /\ temp_html_file_path = [r \in Requests |-> None]
    /\ temp_pdf_file_path = [r \in Requests |-> None]
    /\ result = [r \in Requests |-> <<>>]
    /\ response = [r \in Requests |-> <<>>]
    /\ printed = [r \in Requests |-> <<>>]
    /\ fds = [r \in Requests |-> {}]
    /\ fs = [p \in {} |-> [creator |-> 0, data |-> ""]]

\* ---------------------------------------------------------------- helpers
Exists(p) == p \in DOMAIN fs                      \* os.path.exists(p)
Unlinked(p) == [q \in DOMAIN fs \ {p} |-> fs[q]]  \* the directory after os.remove(p)
Created(p, r, d) == (p :> [creator |-> r, data |-> d]) @@ fs
WrittenTo(p, r, d) ==                             \* open(p, 'w') and write d
    IF Exists(p) THEN [fs EXCEPT ![p].data = d] ELSE Created(p, r, d)

\* a return that leaves the handler without running the finally block
ReturnSkipsFinally(r, resp) ==
    /\ response' = [response EXCEPT ![r] = <<resp>>]
    /\ pc' = [pc EXCEPT ![r] = "done"]

\* return <resp> from inside the try: the finally block runs next
Return(r, resp) ==
    /\ response' = [response EXCEPT ![r] = <<resp>>]
    /\ pc' = [pc EXCEPT ![r] = "finally_html"]

\* ------------------------------------------------- lines 26-43: validation
\* request.get_json(): the parsed value, or the HTTPException it raises.
\* A body that does not parse raises BadRequest; a request without a JSON
\* body yields None, BadRequest or UnsupportedMediaType, by Flask version
\* and Content-Type.
GetJson(b) ==
    CASE b.raw = "json" -> {[raised |-> "", data |-> b.data]}
      [] b.raw = "malformed" -> {[raised |-> "400 Bad Request", data |-> JNull]}
      [] b.raw = "absent" -> {[raised |-> "", data |-> JNull],
                              [raised |-> "400 Bad Request", data |-> JNull],
                              [raised |-> "415 Unsupported Media Type", data |-> JNull]}

\* ValidateData without the test 'html' not in data, the value fetched with
\* data['html']: a missing key raises KeyError.
ValidateDataNoKeyTest(data) ==
    IF ~Truthy(data) THEN [response |-> <<MissingField>>, html |-> JNull]
    ELSE IF data.t # "obj" \/ "html" \notin DOMAIN data.o
        THEN [response |-> <<InternalError("KeyError")>>, html |-> JNull]
    ELSE IF ~Truthy(data.o["html"])
        THEN [response |-> <<EmptyField>>, html |-> data.o["html"]]
    ELSE [response |-> <<>>, html |-> data.o["html"]]

\* What lines 28-43 do with a parsed body: the response they return (none
\* when the request goes on to the scratch files) and the html_content kept.
Outcome(resp, html) == [response |-> resp, html |-> html]
ValidateData(data) ==
    IF ~Truthy(data) THEN Outcome(<<MissingField>>, JNull)
    ELSE IF ContainsHtml(data) = "TypeError"
        THEN Outcome(<<InternalError("argument of type is not iterable")>>, JNull)
    ELSE IF ContainsHtml(data) = "no" THEN Outcome(<<MissingField>>, JNull)
    ELSE IF data.t # "obj"
        THEN Outcome(<<InternalError("object has no attribute 'get'")>>, JNull)
    ELSE IF ~Truthy(data.o["html"]) THEN Outcome(<<EmptyField>>, data.o["html"])
    ELSE IF data.o["html"].t \notin {"str", "list"}
        THEN Outcome(<<InternalError("object is not subscriptable")>>, data.o["html"])
    ELSE Outcome(<<>>, data.o["html"])

Validate(b) ==
    {IF j.raised # "" THEN Outcome(<<InternalError(j.raised)>>, JNull)
                      ELSE ValidateData(j.data) : j \in GetJson(b)}

\* lines 20-43: the request arrives with one of the bodies B and is validated
Receive(r, B) ==
    /\ pc[r] = "idle"
    /\ \E b \in B : \E o \in Validate(b) :
        /\ request' = [request EXCEPT ![r] = b]
        /\ html_content' = [html_content EXCEPT ![r] = o.html]
        /\ IF o.response = <<>>
              THEN /\ pc' = [pc EXCEPT ![r] = "mkstemp_html"]
                   /\ UNCHANGED response
              ELSE Return(r, o.response[1])
    /\ UNCHANGED <<temp_html_file_path, temp_pdf_file_path, result, printed, fs, fds>>

\* ------------------------------------------ lines 45-61: the scratch files
\* mkstemp without O_EXCL: any candidate name, taken or not
MkstempNotExclusive(candidates) == candidates

\* tempfile.mkstemp: a name no existing file has, created empty (O_EXCL)
Mkstemp(candidates) == {p \in candidates : ~Exists(p)}

\* lines 48-49
MkstempHtml(r) ==
    /\ pc[r] = "mkstemp_html"
    /\ \/ \E p \in Mkstemp(HtmlPaths) :
            /\ fs' = Created(p, r, "")
            /\ temp_html_file_path' = [temp_html_file_path EXCEPT ![r] = p]
            /\ pc' = [pc EXCEPT ![r] = "mkstemp_pdf"]
            /\ UNCHANGED response
       \/ /\ Return(r, InternalError("OSError"))
          /\ UNCHANGED <<fs, temp_html_file_path>>
    /\ UNCHANGED <<request, html_content, temp_pdf_file_path, result, printed, fds>>

\* lines 50-51
MkstempPdf(r) ==
    /\ pc[r] = "mkstemp_pdf"
    /\ \/ \E p \in Mkstemp(PdfPaths) :
            /\ fs' = Created(p, r, "")
            /\ temp_pdf_file_path' = [temp_pdf_file_path EXCEPT ![r] = p]
            /\ pc' = [pc EXCEPT ![r] = "write"]
            /\ UNCHANGED response
       \/ /\ Return(r, InternalError("OSError"))
          /\ UNCHANGED <<fs, temp_pdf_file_path>>
    /\ UNCHANGED <<request, html_content, temp_html_file_path, result, printed, fds>>

\* WriteHtml without the with statement: the text stays in the buffer of a
\* file object that is never closed
WriteHtmlNoClose(r) ==
    /\ pc[r] = "write"
    /\ \/ /\ html_content[r].t = "str"
          /\ fs' = WrittenTo(temp_html_file_path[r], r, "")
          /\ fds' = [fds EXCEPT ![r] = @ \cup {temp_html_file_path[r]}]
          /\ pc' = [pc EXCEPT ![r] = "spawn"]
          /\ UNCHANGED response
       \/ /\ Return(r, InternalError("OSError"))
          /\ UNCHANGED <<fs, fds>>
    /\ UNCHANGED <<request, html_content, temp_html_file_path, temp_pdf_file_path, result,
                   printed>>

\* lines 58-59: open(temp_html_file_path, 'w') and f.write(html_content)
WriteHtml(r) ==
    /\ pc[r] = "write"
    /\ \/ /\ html_content[r].t = "str"
          /\ fs' = WrittenTo(temp_html_file_path[r], r, html_content[r].s)
          /\ pc' = [pc EXCEPT ![r] = "spawn"]
          /\ UNCHANGED response
       \/ /\ html_content[r].t # "str"
          /\ fs' = WrittenTo(temp_html_file_path[r], r, "")
          /\ Return(r, InternalError("write() argument must be str"))
       \/ /\ Return(r, InternalError("OSError"))
          /\ UNCHANGED fs
    /\ UNCHANGED <<request, html_content, temp_html_file_path, temp_pdf_file_path, result,
                   printed, fds>>

\* ------------------------------------------- lines 63-97: the renderer run
Stdouts == {"Loading pages"}            \* texts the renderer may print on stdout
Stderrs == {"", "Exit with code 1"}     \* texts the renderer may print on stderr
Effects == {"write", "none", "remove"}  \* what the renderer does to its output path

\* the PDF the renderer makes of a document
Render(html) == "%PDF-" \o html

\* line 84: the command line, printed before every run
RunningCommand(r) ==
    "Running command: xvfb-run wkhtmltopdf "
        \o temp_html_file_path[r] \o " " \o temp_pdf_file_path[r]

\* Spawn under an except clause that does not cover the error of
\* subprocess.run: the finally block runs and the exception leaves the handler
SpawnUncaught(r) ==
    /\ pc[r] = "spawn"
    /\ printed' = [printed EXCEPT ![r] = Append(@, RunningCommand(r))]
    /\ \/ pc' = [pc EXCEPT ![r] = "running"]
       \/ pc' = [pc EXCEPT ![r] = "finally_html"]
    /\ UNCHANGED <<request, html_content, temp_html_file_path, temp_pdf_file_path,
                   result, response, fs, fds>>

\* lines 84-90, entry: subprocess.run starts xvfb-run wkhtmltopdf <html> <pdf>
\* and waits for it without a timeout
Spawn(r) ==
    /\ pc[r] = "spawn"
    /\ printed' = [printed EXCEPT ![r] = Append(@, RunningCommand(r))]
    /\ \/ /\ pc' = [pc EXCEPT ![r] = "running"]
          /\ UNCHANGED response
       \/ Return(r, InternalError("FileNotFoundError"))
    /\ UNCHANGED <<request, html_content, temp_html_file_path, temp_pdf_file_path,
                   result, fs, fds>>

\* The directory after the renderer of r has run: it reads the input path
\* and writes, leaves alone or removes the output path.
Rendered(r, effect) ==
    CASE effect = "write" /\ Exists(temp_html_file_path[r]) ->
            WrittenTo(temp_pdf_file_path[r], r, Render(fs[temp_html_file_path[r]].data))
      [] effect = "remove" -> Unlinked(temp_pdf_file_path[r])
      [] OTHER -> fs

\* RenderFailed with the two captured streams exchanged
RenderFailedSwapped(res) ==
    [status |-> 500,
     json |-> [error |-> "PDF conversion failed",
               details |-> res.stdout,
               command_output |-> res.stderr],
     body |-> ""]

RenderFailed(res) ==
    Json(500, [error |-> "PDF conversion failed",
               details |-> res.stderr,
               command_output |-> res.stdout])

\* RendererExit with one retry: a first non-zero exit runs the command again
RendererExitRetries(r) ==
    /\ pc[r] = "running"
    /\ \E code \in {0, 1}, out \in Stdouts, err \in Stderrs, effect \in Effects :
        LET res == [returncode |-> code, stdout |-> out, stderr |-> err] IN
        /\ fs' = Rendered(r, effect)
        /\ result' = [result EXCEPT ![r] = <<res>>]
        /\ IF res.returncode # 0 /\ result[r] = <<>>
              THEN /\ pc' = [pc EXCEPT ![r] = "spawn"]
                   /\ UNCHANGED response
           ELSE IF res.returncode # 0
              THEN Return(r, RenderFailed(res))
              ELSE /\ pc' = [pc EXCEPT ![r] = "exists"]
                   /\ UNCHANGED response
    /\ UNCHANGED <<request, html_content, temp_html_file_path, temp_pdf_file_path, printed, fds>>

\* line 90, return, and lines 92-108: the renderer terminates, subprocess.run
\* returns the CompletedProcess and the return code is examined
RendererExit(r) ==
    /\ pc[r] = "running"
    /\ \E code \in {0, 1}, out \in Stdouts, err \in Stderrs, effect \in Effects :
        LET res == [returncode |-> code, stdout |-> out, stderr |-> err] IN
        /\ fs' = Rendered(r, effect)
        /\ result' = [result EXCEPT ![r] = <<res>>]
        /\ IF res.returncode # 0
              THEN Return(r, RenderFailed(res))
              ELSE /\ pc' = [pc EXCEPT ![r] = "exists"]
                   /\ UNCHANGED response
    /\ UNCHANGED <<request, html_content, temp_html_file_path, temp_pdf_file_path, printed, fds>>

\* The renderer never terminates: subprocess.run (no timeout argument) never
\* returns, and the handler stays inside line 90.
RendererHangs(r) ==
    /\ pc[r] = "running"
    /\ pc' = [pc EXCEPT ![r] = "hung"]
    /\ UNCHANGED <<request, html_content, temp_html_file_path, temp_pdf_file_path,
                   result, response, printed, fs, fds>>

\* ---------------------------------------- lines 110-132: the output file
EmptyOutput(path, res) ==
    Json(500, [error |-> "PDF conversion command succeeded, but output file is missing or empty",
               details |-> "Output file path: " \o path,
               command_output_stderr |-> res.stderr,
               command_output_stdout |-> res.stdout])

\* CheckExists as a wait: the handler goes on only once the output file is there
CheckExistsWaits(r) ==
    /\ pc[r] = "exists"
    /\ Exists(temp_pdf_file_path[r])
    /\ pc' = [pc EXCEPT ![r] = "getsize"]
    /\ UNCHANGED <<request, html_content, temp_html_file_path, temp_pdf_file_path,
                   result, response, printed, fs, fds>>

\* line 111, left operand: os.path.exists(temp_pdf_file_path)
CheckExists(r) ==
    /\ pc[r] = "exists"
    /\ IF ~Exists(temp_pdf_file_path[r])
          THEN Return(r, EmptyOutput(temp_pdf_file_path[r], result[r][1]))
          ELSE /\ pc' = [pc EXCEPT ![r] = "getsize"]
               /\ UNCHANGED response
    /\ UNCHANGED <<request, html_content, temp_html_file_path, temp_pdf_file_path,
                   result, printed, fs, fds>>

\* CheckSize without the comparison of the size with 0
CheckSizeNoZero(r) ==
    /\ pc[r] = "getsize"
    /\ IF ~Exists(temp_pdf_file_path[r])
          THEN /\ response' = [response EXCEPT ![r] = <<InternalError("FileNotFoundError")>>]
               /\ pc' = [pc EXCEPT ![r] = "finally_html"]
          ELSE /\ pc' = [pc EXCEPT ![r] = "send_file"]
               /\ UNCHANGED response
    /\ UNCHANGED <<request, html_content, temp_html_file_path, temp_pdf_file_path,
                   result, printed, fs, fds>>

\* line 111, right operand: os.path.getsize(temp_pdf_file_path) == 0
CheckSize(r) ==
    /\ pc[r] = "getsize"
    /\ IF ~Exists(temp_pdf_file_path[r])
          THEN Return(r, InternalError("FileNotFoundError"))
          ELSE IF Len(fs[temp_pdf_file_path[r]].data) = 0
          THEN Return(r, EmptyOutput(temp_pdf_file_path[r], result[r][1]))
          ELSE /\ pc' = [pc EXCEPT ![r] = "send_file"]
               /\ UNCHANGED response
    /\ UNCHANGED <<request, html_content, temp_html_file_path, temp_pdf_file_path,
                   result, printed, fs, fds>>

\* send_file's response: the bytes of the file it opened
Pdf(data) == [status |-> 200, json |-> NoJson, body |-> data]

\* SendFile reading the whole file into the response and closing it
SendFileReadsAll(r) ==
    /\ pc[r] = "send_file"
    /\ \/ /\ Exists(temp_pdf_file_path[r])
          /\ Return(r, Pdf(fs[temp_pdf_file_path[r]].data))
       \/ /\ ~Exists(temp_pdf_file_path[r])
          /\ Return(r, InternalError("FileNotFoundError"))
       \/ Return(r, InternalError("OSError"))
    /\ UNCHANGED <<request, html_content, temp_html_file_path, temp_pdf_file_path,
                   result, printed, fs, fds>>

\* lines 127-132: send_file opens the output file and returns a response
\* that will read it; the open descriptor keeps the bytes readable after the
\* path is unlinked
SendFile(r) ==
    /\ pc[r] = "send_file"
    /\ \/ /\ Exists(temp_pdf_file_path[r])
          /\ Return(r, Pdf(fs[temp_pdf_file_path[r]].data))
          /\ fds' = [fds EXCEPT ![r] = @ \cup {temp_pdf_file_path[r]}]
       \/ /\ ~Exists(temp_pdf_file_path[r])
          /\ Return(r, InternalError("FileNotFoundError"))
          /\ UNCHANGED fds
       \/ /\ Return(r, InternalError("OSError"))
          /\ UNCHANGED fds
    /\ UNCHANGED <<request, html_content, temp_html_file_path, temp_pdf_file_path,
                   result, printed, fs>>

\* After the handler has returned, the server sends the body of a send_file
\* response: it reads the file through the descriptor and closes it.
Stream(r) ==
    /\ pc[r] = "done"
    /\ fds[r] # {}
    /\ fds' = [fds EXCEPT ![r] = {}]
    /\ UNCHANGED <<pc, request, html_content, temp_html_file_path, temp_pdf_file_path,
                   result, response, printed, fs>>

\* ------------------------------------------------ lines 144-167: finally
\* Removed with the existence test inverted: an existing file is left alone
RemovedInverted(kind, path) ==
    IF path # None /\ ~(path \in DOMAIN fs)
        THEN {[dir |-> fs, line |-> <<"Removed " \o path>>]}
        ELSE {[dir |-> fs, line |-> <<>>]}

\* if path and os.path.exists(path): try os.remove(path) except OSError: print
\* What the statement can do: unlink the file and print "Removed", or
\* (os.remove raised OSError) leave the directory as it was and print the
\* error; nothing when the path is None or names no file.
Removed(kind, path) ==
    IF path # None /\ Exists(path)
        THEN {[dir |-> Unlinked(path), line |-> <<"Removed " \o path>>],
              [dir |-> fs,
               line |-> <<"Error removing temporary " \o kind \o " file " \o path>>]}
        ELSE {[dir |-> fs, line |-> <<>>]}

\* lines 144-155
FinallyHtml(r) ==
    /\ pc[r] = "finally_html"
    /\ \E o \in Removed("html", temp_html_file_path[r]) :
        /\ fs' = o.dir
        /\ printed' = [printed EXCEPT
                         ![r] = Append(@, "Cleaning up temporary files...") \o o.line]
    /\ pc' = [pc EXCEPT ![r] = "finally_pdf"]
    /\ UNCHANGED <<request, html_content, temp_html_file_path, temp_pdf_file_path,
                   result, response, fds>>

\* FinallyPdf were the two removals under one try: an error of the first
\* removal skips the second
FinallyPdfSkippedAfterError(r) ==
    /\ pc[r] = "finally_pdf"
    /\ \E o \in IF \E i \in 1..Len(printed[r]) :
                       IsSubstr("Error removing", printed[r][i])
                   THEN {[dir |-> fs, line |-> <<>>]}
                   ELSE Removed("pdf", temp_pdf_file_path[r]) :
        /\ fs' = o.dir
        /\ printed' = [printed EXCEPT ![r] = Append(@ \o o.line, "Cleanup finished.")]
    /\ pc' = [pc EXCEPT ![r] = "done"]
    /\ UNCHANGED <<request, html_content, temp_html_file_path, temp_pdf_file_path,
                   result, response, fds>>

\* lines 157-167, and the handler returns the response
FinallyPdf(r) ==
    /\ pc[r] = "finally_pdf"
    /\ \E o \in Removed("pdf", temp_pdf_file_path[r]) :
        /\ fs' = o.dir
        /\ printed' = [printed EXCEPT ![r] = Append(@ \o o.line, "Cleanup finished.")]
    /\ pc' = [pc EXCEPT ![r] = "done"]
    /\ UNCHANGED <<request, html_content, temp_html_file_path, temp_pdf_file_path,
                   result, response, fds>>

\* ------------------------------------------------------- specifications
\* the steps of the worker that runs request r
Handler(r) ==
    \/ MkstempHtml(r) \/ MkstempPdf(r) \/ WriteHtml(r) \/ Spawn(r)
    \/ CheckExists(r) \/ CheckSize(r) \/ SendFile(r)
    \/ FinallyHtml(r) \/ FinallyPdf(r)

\* Concurrent workers, one per request.
Next ==
    \E r \in Requests :
        \/ Receive(r, CoreBodies(r))
        \/ Handler(r)
        \/ RendererExit(r)
        \/ RendererHangs(r)
        \/ Stream(r)

Spec == Init /\ [][Next]_vars

\* One request on its own, with any body.
SoloNext ==
    \/ Receive(1, Bodies(1))
    \/ Handler(1)
    \/ RendererExit(1)
    \/ RendererHangs(1)
    \/ Stream(1)

SoloSpec == Init /\ [][SoloNext]_vars

\* The worker thread keeps running, and a renderer that is going to
\* terminate does terminate.
SoloFairSpec == SoloSpec /\ WF_vars(Handler(1)) /\ WF_vars(RendererExit(1))

\* ================================================================ claims
InFlight(r) == pc[r] \notin {"idle", "done"}
Allocated(r) == {temp_html_file_path[r], temp_pdf_file_path[r]} \ {None}
\* the scratch files on disk that were created for request r
Leftover(r) == {p \in DOMAIN fs : fs[p].creator = r}
Status(r) == IF response[r] = <<>> THEN 0 ELSE response[r][1].status

\* C1 (as stated): once the handler of a request has returned, no scratch
\* file created for that request exists on disk, whatever the exit path.
C1_NoScratchFileRemains ==
    \A r \in Requests : pc[r] = "done" => Leftover(r) = {}

\* C1 (amended): once the handler has returned, a scratch file created for
\* the request exists on disk only if the finally block's os.remove of it
\* raised OSError, which the block printed; on every exit path where no
\* removal fails nothing of the request remains.
C1_NoScratchFileRemainsUnlessRemoveFailed ==
    \A r \in Requests :
        pc[r] = "done" =>
            \A p \in Leftover(r) :
                \E i \in 1..Len(printed[r]) :
                    /\ IsSubstr("Error removing", printed[r][i])
                    /\ IsSubstr(p, printed[r][i])

\* C1 witness: one request has returned after its second mkstemp failed,
\* another after a 200, and neither has left a file.
C1_Witness ==
    /\ \E r \in Requests :
        /\ pc[r] = "done"
        /\ temp_html_file_path[r] # None /\ temp_pdf_file_path[r] = None
        /\ Leftover(r) = {}
    /\ \E r \in Requests :
        /\ pc[r] = "done" /\ Status(r) = 200
        /\ Leftover(r) = {}

\* C2: a request whose renderer never terminates still completes, with a
\* RenderTimeout server-error response.
C2_HungRendererTimesOut ==
    \A r \in Requests : (pc[r] = "hung") ~> (pc[r] = "done" /\ Status(r) = 500)

\* C3: every request that ends in a 200 returns exactly the PDF the renderer
\* made of that same request's HTML.
C3_NoCrossContamination ==
    \A r \in Requests :
        Status(r) = 200 => response[r][1].body = Render(html_content[r].s)

\* ---- C4
IsRenderFailed(resp) == resp.status = 500 /\ resp.json.error = "PDF conversion failed"
IsEmptyOutput(resp) ==
    /\ resp.status = 500
    /\ resp.json.error =
        "PDF conversion command succeeded, but output file is missing or empty"
IsInternalError(resp) ==
    /\ resp.status = 500
    /\ IsSubstr("An internal server error occurred", resp.json.error)
\* the step decides the response of request r, after its renderer was run
Classifies(r) == response[r] = <<>> /\ response'[r] # <<>> /\ result'[r] # <<>>
OutputMissing(r) == ~Exists(temp_pdf_file_path[r])
OutputSize(r) == Len(fs[temp_pdf_file_path[r]].data)

\* C4 (as stated): the response of a request that reached the renderer is
\* RenderFailed when the exit code is non-zero, otherwise EmptyOutput when
\* the output file is missing or zero-byte, otherwise 200 with the file's bytes.
C4_ClassificationRule ==
    [][\A r \in Requests :
        Classifies(r) =>
            LET res == result'[r][1]
                resp == response'[r][1]
            IN  IF res.returncode # 0 THEN IsRenderFailed(resp)
                ELSE IF OutputMissing(r) \/ OutputSize(r) = 0 THEN IsEmptyOutput(resp)
                ELSE resp.status = 200 /\ resp.body = fs[temp_pdf_file_path[r]].data]_vars

\* C4 (amended): a non-zero exit code gives RenderFailed, whatever the output
\* file; otherwise an output file that os.path.exists finds missing or
\* os.path.getsize finds zero-byte gives EmptyOutput, with another error text
\* than RenderFailed; otherwise the response is 200 with the file's bytes,
\* unless getsize or the open of send_file raises, which gives the generic
\* 500 of the except block.  A 200 is returned only when the exit code was 0
\* and the file existed with size greater than zero.
C4_ClassificationRuleOrFault ==
    [][\A r \in Requests :
        Classifies(r) =>
            LET res == result'[r][1]
                resp == response'[r][1]
            IN  IF res.returncode # 0 THEN IsRenderFailed(resp)
                ELSE /\ ~IsRenderFailed(resp)
                     /\ \/ /\ IsEmptyOutput(resp)
                           /\ OutputMissing(r) \/ OutputSize(r) = 0
                        \/ /\ resp.status = 200
                           /\ ~OutputMissing(r) /\ OutputSize(r) > 0
                           /\ resp.body = fs[temp_pdf_file_path[r]].data
                        \/ /\ IsInternalError(resp)
                           /\ pc[r] \in {"getsize", "send_file"}
                     /\ pc[r] = "exists" => IsEmptyOutput(resp)
                     /\ (pc[r] = "getsize" /\ ~OutputMissing(r)) => IsEmptyOutput(resp)]_vars

\* C4 witness: all three rules have applied: a request failed with a non-empty
\* output file on disk, or got EmptyOutput, or got its PDF with status 200.
C4_Witness ==
    \E r \in Requests :
        /\ pc[r] = "finally_html" /\ result[r] # <<>>
        /\ result[r][1].returncode # 0
        /\ ~OutputMissing(r) /\ OutputSize(r) > 0
        /\ IsRenderFailed(response[r][1])
        /\ \E s \in Requests \ {r} :
            /\ pc[s] = "done" /\ result[s] # <<>>
            /\ result[s][1].returncode = 0
            /\ Status(s) = 200

\* ---- C5
KeyLess(b) == b.raw = "json" /\ b.data.t = "obj" /\ "html" \notin DOMAIN b.data.o
NeverAllocated(r) ==
    /\ Allocated(r) = {}
    /\ Leftover(r) = {}
    /\ result[r] = <<>>
    /\ pc[r] \in {"finally_html", "finally_pdf", "done"}

\* C5: a request whose JSON body is an object without the key html (the
\* empty object included) gets a 400 with an error field, no scratch file is
\* ever allocated for it and the renderer is never run for it.
C5_MissingKeyIs400 ==
    \A r \in Requests :
        (pc[r] # "idle" /\ KeyLess(request[r])) =>
            /\ Status(r) = 400
            /\ "error" \in DOMAIN response[r][1].json
            /\ NeverAllocated(r)

\* C5 witness: the handler has returned for a non-empty object without html.
C5_Witness ==
    \E r \in Requests :
        /\ pc[r] = "done"
        /\ KeyLess(request[r]) /\ DOMAIN request[r].data.o # {}
        /\ Status(r) = 400

\* ---- C6
NotAnObject(b) == b.raw \in {"absent", "malformed"} \/ b.data.t # "obj"

\* C6: a request whose body is absent, malformed or JSON that is no object
\* gets a 400, never a 500, and no scratch files are allocated.
C6_BadBodyIs400 ==
    \A r \in Requests :
        (pc[r] # "idle" /\ NotAnObject(request[r])) =>
            Status(r) = 400 /\ NeverAllocated(r)

\* ---- C7
IsBlank(v) ==
    \/ v.t = "null"
    \/ v.t = "str" /\ \A i \in 1..Len(v.s) : SubSeq(v.s, i, i) = " "
BlankHtml(b) ==
    /\ b.raw = "json" /\ b.data.t = "obj" /\ "html" \in DOMAIN b.data.o
    /\ IsBlank(b.data.o["html"])

\* C7: a request whose html is the empty string, null or only whitespace
\* gets a 400, no scratch files are allocated and the renderer is not run.
C7_BlankHtmlIs400 ==
    \A r \in Requests :
        (pc[r] # "idle" /\ BlankHtml(request[r])) =>
            Status(r) = 400 /\ NeverAllocated(r)

\* ---- C8
\* C8: whenever the renderer exits with a non-zero code the response is a
\* 500 whose details is the captured stderr and whose command_output is the
\* captured stdout.
C8_RenderFailedCarriesStderr ==
    \A r \in Requests :
        (result[r] # <<>> /\ result[r][1].returncode # 0) =>
            /\ Status(r) = 500
            /\ {"details", "command_output"} \subseteq DOMAIN response[r][1].json
            /\ response[r][1].json.details = result[r][1].stderr
            /\ response[r][1].json.command_output = result[r][1].stdout

\* C8 witness: the handler has returned after a renderer that failed with
\* text on stderr.
C8_Witness ==
    \E r \in Requests :
        /\ pc[r] = "done" /\ result[r] # <<>>
        /\ result[r][1].returncode # 0
        /\ result[r][1].stderr # ""
        /\ response[r][1].json.details = result[r][1].stderr

\* ---- C9
\* C9: every 500 response is a JSON object with the fields error and
\* details, and renderer output is reported under no other key than
\* command_output.
C9_ServerErrorShape ==
    \A r \in Requests :
        Status(r) = 500 =>
            /\ {"error", "details"} \subseteq DOMAIN response[r][1].json
            /\ DOMAIN response[r][1].json \subseteq {"error", "details", "command_output"}

\* ---- C10

HoldsHtml(s) == temp_html_file_path[s] # None /\ pc[s] \notin {"finally_pdf", "done"}
C11_FaultsBecome500 ==
    [][\A r \in Requests :
        /\ (pc[r] \in {"mkstemp_html", "mkstemp_pdf", "write", "spawn"}
                /\ pc'[r] = "finally_html") =>
            response'[r] # <<>> /\ IsInternalError(response'[r][1])
        /\ (pc[r] \in {"getsize", "send_file"} /\ pc'[r] = "finally_html") =>
            /\ response'[r] # <<>>
            /\ \/ IsInternalError(response'[r][1])
               \/ IsEmptyOutput(response'[r][1])
               \/ response'[r][1].status = 200
        /\ pc'[r] = "done" => response'[r] # <<>>]_vars

\* C11 witness: a request has returned the 500 of a failed renderer start,
\* and another request has been served with a 200.
C11_Witness ==
    \E r, s \in Requests :
        /\ pc[r] = "done" /\ Allocated(r) # {} /\ result[r] = <<>>
        /\ Len(printed[r]) > 0 /\ IsSubstr("Running command", printed[r][1])
        /\ IsInternalError(response[r][1])
        /\ pc[s] = "done" /\ Status(s) = 200

\* ---- C12
\* how many times a line was printed for a request
Count(line, lines) == Cardinality({i \in 1..Len(lines) : lines[i] = line})
\* line 146 opens the finally block, line 166 closes it
CleanupStarted(r) == Count("Cleaning up temporary files...", printed[r])
CleanupFinished(r) == Count("Cleanup finished.", printed[r])

\* C12: the finally block runs exactly once per request on every branch, and
\* only after the response of the request has been decided: it has started
\* exactly once from the removal of the output file on, has finished exactly
\* once when the handler is done, and has not run at all before.
C12_CleanupExactlyOnce ==
    \A r \in Requests :
        /\ CleanupStarted(r) = (IF pc[r] \in {"finally_pdf", "done"} THEN 1 ELSE 0)
        /\ CleanupFinished(r) = (IF pc[r] = "done" THEN 1 ELSE 0)
        /\ CleanupStarted(r) > 0 => response[r] # <<>>
        /\ pc[r] = "finally_html" => response[r] # <<>>

\* C12 witness: the block has run once for a request rejected with a 400 and
\* once for a request served with a 200.
C12_Witness ==
    \E r, s \in Requests :
        /\ pc[r] = "done" /\ Status(r) = 400 /\ CleanupFinished(r) = 1
        /\ pc[s] = "done" /\ Status(s) = 200 /\ CleanupFinished(s) = 1

\* ---- C13
\* the lines the removal of a path can print
RemovalLines(kind, path) ==
    {"Removed " \o path, "Error removing temporary " \o kind \o " file " \o path}
Printed(r, lines) == \E i \in 1..Len(printed[r]) : printed[r][i] \in lines
HtmlRemovalFailed(r) ==
    /\ temp_html_file_path[r] # None
    /\ Printed(r, {"Error removing temporary html file " \o temp_html_file_path[r]})

\* C13: the finally block never changes the response of the request and
\* always runs to its end; when the output file exists its removal is
\* attempted (and its outcome printed) whether or not the removal of the input
\* file failed.
C13_RemovalFailureIsContained ==
    [][\A r \in Requests :
        /\ pc[r] \in {"finally_html", "finally_pdf", "done"} =>
            response'[r] = response[r]
        /\ (pc[r] = "finally_html" /\ pc'[r] # pc[r]) => pc'[r] = "finally_pdf"
        /\ (pc[r] = "finally_pdf" /\ pc'[r] # pc[r]) =>
            /\ pc'[r] = "done"
            /\ (temp_pdf_file_path[r] # None /\ Exists(temp_pdf_file_path[r])) =>
                \E i \in 1..Len(printed'[r]) :
                    /\ i > Len(printed[r])
                    /\ printed'[r][i] \in RemovalLines("pdf", temp_pdf_file_path[r])]_vars

\* C13 witness: the removal of the input file failed, the output file was
\* removed all the same, and the request returned its 200.
C13_Witness ==
    \E r \in Requests :
        /\ pc[r] = "done" /\ Status(r) = 200
        /\ HtmlRemovalFailed(r)
        /\ Printed(r, {"Removed " \o temp_pdf_file_path[r]})

\* ---- C14
\* how many times the request has run the command of line 90 (line 84 is
\* printed just before each run)
Invocations(r) ==
    Cardinality({i \in 1..Len(printed[r]) :
                    /\ Len(printed[r][i]) >= 17
                    /\ SubSeq(printed[r][i], 1, 17) = "Running command: "})

\* C14: the renderer is run at most once per request: not before the scratch
\* files are written, once from the run on, never for a request answered
\* with a 400, and exactly once for a request answered with RenderFailed,
\* EmptyOutput or a 200.
C14_RendererInvokedAtMostOnce ==
    \A r \in Requests :
        /\ Invocations(r) <= 1
        /\ pc[r] \in {"idle", "mkstemp_html", "mkstemp_pdf", "write", "spawn"} =>
            Invocations(r) = 0
        /\ pc[r] \in {"running", "hung", "exists", "getsize", "send_file"} =>
            Invocations(r) = 1
        /\ Status(r) = 400 => Invocations(r) = 0
        /\ result[r] # <<>> => Invocations(r) = 1
        /\ (response[r] # <<>> /\ (\/ IsRenderFailed(response[r][1])
                                   \/ IsEmptyOutput(response[r][1])
                                   \/ Status(r) = 200)) =>
            Invocations(r) = 1

\* C14 witness: one request has answered a failed render after a single
\* run, another was rejected by validation without any run.
C14_Witness ==
    \E r, s \in Requests :
        /\ pc[r] = "done" /\ IsRenderFailed(response[r][1]) /\ Invocations(r) = 1
        /\ pc[s] = "done" /\ Status(s) = 400 /\ Invocations(s) = 0

\* ---- C15
\* the handler stands inside subprocess.run
RendererRuns(r) == pc[r] \in {"running", "hung"}
\* the input file holds the whole document of the request
HtmlWritten(r) ==
    /\ temp_html_file_path[r] # None /\ Exists(temp_html_file_path[r])
    /\ html_content[r].t = "str"
    /\ fs[temp_html_file_path[r]].data = html_content[r].s

\* C15: the steps of a request are ordered: nothing is written before both
\* scratch files are allocated; the renderer starts only when the input file
\* holds the whole document and is closed; the exit code and the output file
\* are examined only once subprocess.run has returned; and the worker holds
\* no open descriptor on a scratch file while the renderer runs.
C15_StepsOrdered ==
    \A r \in Requests :
        /\ pc[r] \in {"idle", "mkstemp_html", "mkstemp_pdf"} =>
            /\ Invocations(r) = 0 /\ result[r] = <<>>
            /\ \A p \in Leftover(r) : fs[p].data = ""
        /\ pc[r] \in {"write", "spawn", "running", "hung", "exists", "getsize", "send_file"} =>
            temp_html_file_path[r] # None /\ temp_pdf_file_path[r] # None
        /\ pc[r] = "write" => Invocations(r) = 0 /\ result[r] = <<>>
        /\ pc[r] = "spawn" \/ RendererRuns(r) => HtmlWritten(r) /\ result[r] = <<>>
        /\ RendererRuns(r) => fds[r] = {}
        /\ pc[r] \in {"exists", "getsize", "send_file"} =>
            result[r] # <<>> /\ result[r][1].returncode = 0
        /\ (response[r] # <<>> /\ (\/ IsRenderFailed(response[r][1])
                                   \/ IsEmptyOutput(response[r][1])
                                   \/ Status(r) = 200)) =>
            result[r] # <<>>

\* C15 witness: a request examines the size of its output file after its
\* renderer has exited with 0, the input file still holding its document,
\* while the renderer of another request runs.
C15_Witness ==
    \E r, s \in Requests :
        /\ pc[r] = "getsize" /\ result[r] # <<>> /\ HtmlWritten(r)
        /\ pc[s] = "running" /\ HtmlWritten(s) /\ fds[s] = {}

\* ---- C16
\* a step of the finally block of r that unlinks the output file of a 200
RemovesOutputOf200(r) ==
    /\ pc[r] = "finally_pdf" /\ pc'[r] = "done" /\ Status(r) = 200
    /\ Exists(temp_pdf_file_path[r])
    /\ temp_pdf_file_path[r] \notin DOMAIN fs'

\* C16 (as stated): on the success path the output file is removed only
\* after the response body has been taken from it, that is, when the
\* descriptor send_file opened has been read and closed.
C16_BodyTakenBeforeRemoval ==
    [][\A r \in Requests : RemovesOutputOf200(r) => fds[r] = {}]_vars

\* C16 (amended): on the success path the output file is removed only after
\* send_file has opened it; the worker still holds that descriptor when the
\* path is unlinked, and the body is read through it only after the handler
\* has returned.
C16_OpenedBeforeRemoval ==
    [][\A r \in Requests :
        /\ RemovesOutputOf200(r) =>
            temp_pdf_file_path[r] \in fds[r] /\ fds'[r] = fds[r]
        /\ (fds[r] # {} /\ fds'[r] = {}) => pc[r] = "done"
        /\ (Status(r) = 200 /\ pc[r] \in {"finally_html", "finally_pdf"}) =>
            temp_pdf_file_path[r] \in fds[r]]_vars

\* C16 witness: a request has returned a 200, its output file is unlinked
\* and the body has not been read yet.
C16_Witness ==
    \E r \in Requests :
        /\ pc[r] = "done" /\ Status(r) = 200
        /\ Printed(r, {"Removed " \o temp_pdf_file_path[r]})
        /\ temp_pdf_file_path[r] \in fds[r]

\* ---- C17
\* request r takes a step of its finally block
CleansUp(r) == pc[r] \in {"finally_html", "finally_pdf"} /\ pc'[r] # pc[r]
\* the files the step removes or changes
Touched == {p \in DOMAIN fs : p \notin DOMAIN fs' \/ fs'[p] # fs[p]}

\* C17: the finally block of a request touches only the two paths the
\* request allocated, never a scratch file that belongs to another request
\* still in flight, and nothing at all when the request allocated nothing.
C17_CleanupTouchesOwnFilesOnly ==
    [][\A r \in Requests : CleansUp(r) =>
        /\ Touched \subseteq Allocated(r)
        /\ \A p \in Touched : fs[p].creator # r => ~InFlight(fs[p].creator)
        /\ Allocated(r) = {} => Touched = {}]_vars

\* ---- C18
\* the handler has returned a response with a status it can produce
Answered(r) ==
    /\ pc[r] = "done"
    /\ Len(response[r]) = 1
    /\ response[r][1].status \in {200, 400, 500}

\* C18: a request whose renderer terminates ends with exactly one response,
\* of status 200, 400 or 500: every request that was received either is
\* answered or hangs in a renderer that never exits; the handler never ends
\* without a response, and a response once decided is never replaced.
C18_EveryRequestAnswered ==
    /\ \A r \in Requests : (pc[r] # "idle") ~> (Answered(r) \/ pc[r] = "hung")
    /\ [](\A r \in Requests : pc[r] = "done" => Answered(r))
    /\ [][\A r \in Requests : response[r] # <<>> => response'[r] = response[r]]_vars

\* C18 witness: the request was rendered, answered with a 200, and its body
\* has been sent.
C18_Witness ==
    /\ Answered(1) /\ Status(1) = 200 /\ Invocations(1) = 1
    /\ CleanupFinished(1) = 1 /\ fds[1] = {}

====
